---------------------------- MODULE Spec2Model ----------------------------
(***************************************************************************)
(* A state-machine model of ARDOUR::MidiSource (libs/ardour/midi_source.cc) *)
(* : the per-parameter interpolation / automation-state override maps, the  *)
(* state (de)serialisation, the capture bookkeeping of the write path and   *)
(* the cursor-based read path over an attached MidiModel.                   *)
(***************************************************************************)
EXTENDS Integers, Sequences, FiniteSets, TLC

(***************************************************************************)
(* Bounds of the model.                                                    *)
(***************************************************************************)
MaxTime == 3
MaxCnt == 2
MaxCapture == 4
MaxChildren == 2
MaxOffset == 1
MaxPos == 1

(***************************************************************************)
(* Enumerations.  AutomationList::InterpolationStyle and AutoState are      *)
(* enums in the program; their XML form is the enumerator's name.           *)
(***************************************************************************)
Discrete == 0
Linear == 1
Styles == {Discrete, Linear}

Off == 0
Play == 4
AutoStates == {Off, Play}

EnumStyleToString(s) == IF s = Discrete THEN "Discrete" ELSE "Linear"
EnumStateToString(s) == IF s = Off THEN "Off" ELSE "Play"

StringToStyle(str) == IF str = "Discrete" THEN Discrete ELSE Linear
StringToState(str) == IF str = "Off" THEN Off ELSE Play

(***************************************************************************)
(* Evoral::Parameter: (type, channel, id).                                  *)
(***************************************************************************)
Param(t, c, i) == [type |-> t, channel |-> c, id |-> i]

CC7 == Param("MidiCCAutomation", 0, 7)
PGM == Param("MidiPgmChangeAutomation", 0, 0)
BEND == Param("MidiPitchBenderAutomation", 1, 0)
PRESS == Param("MidiChannelPressureAutomation", 0, 0)
SYSEX == Param("MidiSystemExclusiveAutomation", 0, 0)
NullParam == Param("NullAutomation", 0, 0)

\* the parameters callers pass to the setters
Params == {CC7, PGM}

\* EventTypeMap::interpolation_of: the type-level default of a parameter
EventTypeMap_interpolation_of(p) ==
    IF p.type = "MidiPgmChangeAutomation" THEN Discrete ELSE Linear

\* EventTypeMap::to_symbol: the symbol drops the id of the types that have none
EventTypeMap_to_symbol(p) ==
    CASE p.type = "MidiCCAutomation" -> <<"midicc", p.channel, p.id>>
      [] p.type = "MidiPgmChangeAutomation" -> <<"midi-pgm-change", p.channel>>
      [] p.type = "MidiPitchBenderAutomation" -> <<"midi-pitch-bender", p.channel>>
      [] p.type = "MidiSystemExclusiveAutomation" -> <<"midi-system-exclusive", p.channel>>
      [] OTHER -> <<"">>

\* EventTypeMap::from_symbol: an unknown symbol gives the NullAutomation parameter
EventTypeMap_from_symbol(sym) ==
    CASE sym[1] = "midicc" -> Param("MidiCCAutomation", sym[2], sym[3])
      [] sym[1] = "midi-pgm-change" -> Param("MidiPgmChangeAutomation", sym[2], 0)
      [] sym[1] = "midi-pitch-bender" -> Param("MidiPitchBenderAutomation", sym[2], 0)
      [] sym[1] = "midi-system-exclusive" -> Param("MidiSystemExclusiveAutomation", sym[2], 0)
      [] OTHER -> NullParam

BogusSymbol == <<"gain-ish">>

(***************************************************************************)
(* std::map operations on the override maps (functions with a finite       *)
(* domain of parameters).                                                   *)
(***************************************************************************)
EmptyMap == [q \in {} |-> 0]

MapErase(m, p) == [q \in DOMAIN m \ {p} |-> m[q]]

MapAssign(m, p, s) == [q \in DOMAIN m \cup {p} |-> IF q = p THEN s ELSE m[q]]

\* std::map::insert keeps the entry of a key that is already present
MapInsert(m, p, s) == IF p \in DOMAIN m THEN m ELSE MapAssign(m, p, s)

(***************************************************************************)
(* The metadata of one source as a value: st.interp and st.auto are the    *)
(* two override maps, st.emitted the notifications emitted so far.          *)
(***************************************************************************)
\* MidiSource::interpolation_of
interpolation_of(m, p) ==
    IF p \notin DOMAIN m THEN EventTypeMap_interpolation_of(p) ELSE m[p]

\* MidiSource::automation_state_of
automation_state_of(m, p) ==
    IF p \notin DOMAIN m THEN Play ELSE m[p]

\* a setter that notifies also when the value is the effective one already
set_interpolation_of_noisy(st, p, s) ==
    [st EXCEPT
        !.interp = IF EventTypeMap_interpolation_of(p) = s
                   THEN MapErase(st.interp, p)
                   ELSE MapAssign(st.interp, p, s),
        !.emitted = Append(st.emitted,
                           [sig |-> "InterpolationChanged", p |-> p, s |-> s])]

\* MidiSource::set_interpolation_of
set_interpolation_of(st, p, s) ==
    IF interpolation_of(st.interp, p) = s
    THEN st
    ELSE [st EXCEPT
            !.interp = IF EventTypeMap_interpolation_of(p) = s
                       THEN MapErase(st.interp, p)
                       ELSE MapAssign(st.interp, p, s),
            !.emitted = Append(st.emitted,
                               [sig |-> "InterpolationChanged", p |-> p, s |-> s])]

\* MidiSource::set_automation_state_of
set_automation_state_of(st, p, s) ==
    IF automation_state_of(st.auto, p) = s
    THEN st
    ELSE [st EXCEPT
            !.auto = IF s = Play
                     THEN MapErase(st.auto, p)
                     ELSE MapAssign(st.auto, p, s),
            !.emitted = Append(st.emitted,
                               [sig |-> "AutomationStateChanged", p |-> p, s |-> s])]


(***************************************************************************)
(* XML state nodes.  A child is                                            *)
(*   [name, has_parameter, parameter, has_value, value]                    *)
(* where value is the "style" property of an InterpolationStyle child and  *)
(* the "state" property of an AutomationState child.                        *)
(***************************************************************************)
Child(n, hp, sym, hv, v) ==
    [name |-> n, has_parameter |-> hp, parameter |-> sym, has_value |-> hv, value |-> v]

RECURSIVE SetToSeq(_)
SetToSeq(S) ==
    IF S = {} THEN << >>
    ELSE LET x == CHOOSE y \in S : TRUE IN <<x>> \o SetToSeq(S \ {x})

\* MidiSource::get_state: one child per entry of each map, interpolation first
get_state(interp, auto) ==
    LET ikeys == SetToSeq(DOMAIN interp)
        akeys == SetToSeq(DOMAIN auto)
    IN  [i \in 1..Len(ikeys) |->
            Child("InterpolationStyle", TRUE, EventTypeMap_to_symbol(ikeys[i]),
                  TRUE, EnumStyleToString(interp[ikeys[i]]))]
        \o
        [i \in 1..Len(akeys) |->
            Child("AutomationState", TRUE, EventTypeMap_to_symbol(akeys[i]),
                  TRUE, EnumStateToString(auto[akeys[i]]))]

AutomatableTypes ==
    {"MidiCCAutomation", "MidiPgmChangeAutomation", "MidiChannelPressureAutomation",
     "MidiNotePressureAutomation", "MidiPitchBenderAutomation"}

\* one iteration of the loop of MidiSource::set_state: the metadata after the
\* child, and whether the loop returned -1 at it
set_state_child(st, ch) ==
    IF ch.name = "InterpolationStyle" THEN
        IF ~ch.has_parameter THEN [st |-> st, failed |-> TRUE]
        ELSE LET p == EventTypeMap_from_symbol(ch.parameter) IN
             IF p.type \notin AutomatableTypes THEN [st |-> st, failed |-> FALSE]
             ELSE IF ch.has_value /\ ch.value = "" THEN
                 [st |-> set_interpolation_of(st, p,
                            IF EventTypeMap_interpolation_of(p) = Discrete
                            THEN Linear ELSE Discrete),
                  failed |-> FALSE]
             ELSE IF ~ch.has_value THEN [st |-> st, failed |-> TRUE]
             ELSE [st |-> set_interpolation_of(st, p, StringToStyle(ch.value)),
                   failed |-> FALSE]
    ELSE IF ch.name = "AutomationState" THEN
        IF ~ch.has_parameter THEN [st |-> st, failed |-> TRUE]
        ELSE LET p == EventTypeMap_from_symbol(ch.parameter) IN
             IF ch.has_value /\ ch.value = "" THEN
                 [st |-> set_automation_state_of(st, p, Off), failed |-> FALSE]
             ELSE IF ~ch.has_value THEN [st |-> st, failed |-> TRUE]
             ELSE [st |-> set_automation_state_of(st, p, StringToState(ch.value)),
                   failed |-> FALSE]
    ELSE [st |-> st, failed |-> FALSE]

\* MidiSource::set_state over the children from index i on
RECURSIVE set_state_from(_, _, _)
set_state_from(st, node, i) ==
    IF i > Len(node) THEN [st |-> st, rc |-> 0]
    ELSE LET r == set_state_child(st, node[i]) IN
         IF r.failed THEN [st |-> r.st, rc |-> -1]
         ELSE set_state_from(r.st, node, i + 1)

\* MidiSource::set_state
set_state(st, node) == set_state_from(st, node, 1)


(***************************************************************************)
(* The attached MidiModel.  A model is an ordered sequence of timed events *)
(* (time in beats, first byte of the buffer, the parameter of a control    *)
(* event) and a map of controls, some of which have an automation list.    *)
(***************************************************************************)
Event(i, t, status, p) == [id |-> i, time |-> t, status |-> status, param |-> p]

Models == {1, 2}
NoModel == 0

ModelEvents(m) ==
    IF m = 1
    THEN << Event(1, 0, 144, NullParam),    \* 0x90 note on, channel 0
            Event(2, 1, 176, CC7),          \* 0xB0 controller, channel 0
            Event(3, 1, 225, BEND),         \* 0xE1 pitch bend, channel 1
            Event(4, 2, 145, NullParam),    \* 0x91 note on, channel 1
            Event(5, 2, 240, NullParam),    \* 0xF0 system exclusive
            Event(6, 4, 128, NullParam) >>  \* 0x80 note off, channel 0
    ELSE << Event(1, 0, 224, BEND),         \* 0xE0 pitch bend, channel 0
            Event(2, 3, 176, CC7),          \* 0xB0 controller, channel 0
            Event(3, 3, 239, BEND) >>       \* 0xEF pitch bend, channel 15

\* MidiModel::controls(): the parameters whose control has a list
ControlsWithList(m) == IF m = 1 THEN {CC7, PGM} ELSE {CC7, BEND}

\* ... and those whose control has no list
ControlsWithoutList(m) == IF m = 1 THEN {PRESS} ELSE {}

Controls(m) == ControlsWithList(m) \cup ControlsWithoutList(m)

(***************************************************************************)
(* State.                                                                  *)
(***************************************************************************)
Sources == {"src", "peer"}
Cursors == {1, 2}

VARIABLES
    model,                \* _model of each source: a model or NoModel
    list_interp,          \* per model: the interpolation of each control's list
    model_open,           \* per model: inside start_write .. end_write
    writing,              \* _writing of each source
    capture_length,       \* _capture_length of each source
    natural_position,     \* _natural_position of each source
    length,               \* _length of each source (beats)
    interpolation_style,  \* _interpolation_style of each source
    automation_state,     \* _automation_state of each source
    cursors,              \* the MidiCursor objects of the readers
    emitted,              \* the signals the last operation emitted, in order
    last                  \* the last operation: its arguments and results

vars == << model, list_interp, model_open, writing, capture_length,
           natural_position, length, interpolation_style, automation_state,
           cursors, emitted, last >>

modelVars == << model, list_interp, model_open >>
captureVars == << writing, capture_length, natural_position, length >>
metaVars == << interpolation_style, automation_state >>

\* a default-constructed iterator is not valid
InvalidIter == [live |-> FALSE, model |-> NoModel, pos |-> 0]

\* a default-constructed MidiCursor.  stale and stale_end are history: a
\* write has completed on the source since the cursor's last read of it, and
\* the end of that last read
NewCursor == [last_read_end |-> 0, iter |-> InvalidIter, connected |-> "none",
              stale |-> FALSE, stale_end |-> 0]

Init ==
    /\ model = [s \in Sources |-> NoModel]
    /\ list_interp = [m \in Models |->
                        [p \in ControlsWithList(m) |-> EventTypeMap_interpolation_of(p)]]
    /\ model_open = [m \in Models |-> FALSE]
    /\ writing = [s \in Sources |-> FALSE]
    /\ capture_length = [s \in Sources |-> 0]
    /\ natural_position = [s \in Sources |-> 0]
    /\ length = [s \in Sources |-> 0]
    /\ interpolation_style = [s \in Sources |-> EmptyMap]
    /\ automation_state = [s \in Sources |-> EmptyMap]
    /\ cursors = [c \in Cursors |-> NewCursor]
    /\ emitted = << >>
    /\ last = [op |-> "construct"]

\* the metadata of source s as a value, with nothing emitted yet
Meta(s) == [interp |-> interpolation_style[s], auto |-> automation_state[s],
            emitted |-> << >>]

(***************************************************************************)
(* Parameter metadata store.                                               *)
(***************************************************************************)
SetInterpolationOf(s, p, style) ==
    LET r == set_interpolation_of(Meta(s), p, style) IN
    /\ interpolation_style' = [interpolation_style EXCEPT ![s] = r.interp]
    /\ emitted' = r.emitted
    /\ last' = [op |-> "set_interpolation_of", s |-> s, p |-> p, v |-> style]
    /\ UNCHANGED << modelVars, captureVars, automation_state, cursors >>

SetAutomationStateOf(s, p, state) ==
    LET r == set_automation_state_of(Meta(s), p, state) IN
    /\ automation_state' = [automation_state EXCEPT ![s] = r.auto]
    /\ emitted' = r.emitted
    /\ last' = [op |-> "set_automation_state_of", s |-> s, p |-> p, v |-> state]
    /\ UNCHANGED << modelVars, captureVars, interpolation_style, cursors >>

\* MidiSource::copy_interpolation_from: s takes the whole map of from
CopyInterpolationFrom(s, from) ==
    /\ s # from
    /\ interpolation_style' = [interpolation_style EXCEPT ![s] = interpolation_style[from]]
    /\ emitted' = << >>
    /\ last' = [op |-> "copy_interpolation_from", s |-> s, from |-> from]
    /\ UNCHANGED << modelVars, captureVars, automation_state, cursors >>

\* MidiSource::copy_automation_state_from
CopyAutomationStateFrom(s, from) ==
    /\ s # from
    /\ automation_state' = [automation_state EXCEPT ![s] = automation_state[from]]
    /\ emitted' = << >>
    /\ last' = [op |-> "copy_automation_state_from", s |-> s, from |-> from]
    /\ UNCHANGED << modelVars, captureVars, interpolation_style, cursors >>

(***************************************************************************)
(* Persistence.                                                            *)
(***************************************************************************)
SetState(s, node) ==
    LET r == set_state(Meta(s), node) IN
    /\ interpolation_style' = [interpolation_style EXCEPT ![s] = r.st.interp]
    /\ automation_state' = [automation_state EXCEPT ![s] = r.st.auto]
    /\ emitted' = r.st.emitted
    /\ last' = [op |-> "set_state", s |-> s, rc |-> r.rc]
    /\ UNCHANGED << modelVars, captureVars, cursors >>

\* get_state of s, then set_state of the node into a newly constructed source
\* (MidiSource (Session&, const XMLNode&)); the new source is kept in last
GetStateSetStateFresh(s) ==
    LET node == get_state(interpolation_style[s], automation_state[s])
        r == set_state([interp |-> EmptyMap, auto |-> EmptyMap, emitted |-> << >>], node)
    IN
    /\ emitted' = << >>
    /\ last' = [op |-> "round_trip", s |-> s, rc |-> r.rc,
                interp |-> r.st.interp, auto |-> r.st.auto]
    /\ UNCHANGED << modelVars, captureVars, metaVars, cursors >>


(***************************************************************************)
(* Lifecycle glue: invalidation and model attach / detach.                 *)
(***************************************************************************)
\* MidiCursor::invalidate, the slot every cursor connected to s runs when s
\* emits Invalidated: the cached iterator is dropped, last_read_end is reset
invalidate_cursors(cs, s) ==
    [c \in Cursors |->
        IF cs[c].connected = s
        THEN [cs[c] EXCEPT !.iter = InvalidIter, !.last_read_end = 0]
        ELSE cs[c]]

\* MidiSource::invalidate: Invalidated (_session.transport_rolling())
Invalidated(rolling) == [sig |-> "Invalidated", rolling |-> rolling]

\* invalidate that emits no signal
invalidate_skipped(cs, s) == cs

\* the cursors after MidiSource::invalidate of source s
invalidate(cs, s) == invalidate_cursors(cs, s)

ModelChanged == [sig |-> "ModelChanged"]

\* MidiSource::set_model
SetModel(s, m, rolling) ==
    /\ model' = [model EXCEPT ![s] = m]
    /\ cursors' = invalidate(cursors, s)
    /\ emitted' = << Invalidated(rolling), ModelChanged >>
    /\ last' = [op |-> "set_model", s |-> s, m |-> m]
    /\ UNCHANGED << list_interp, model_open, captureVars, metaVars >>

\* MidiSource::drop_model
DropModel(s, rolling) ==
    /\ model' = [model EXCEPT ![s] = NoModel]
    /\ cursors' = invalidate(cursors, s)
    /\ emitted' = << Invalidated(rolling), ModelChanged >>
    /\ last' = [op |-> "drop_model", s |-> s]
    /\ UNCHANGED << list_interp, model_open, captureVars, metaVars >>

(***************************************************************************)
(* Write / capture engine.                                                 *)
(***************************************************************************)
\* timecnt_t::max (cnt.time_domain()), the "unbounded" count
TimecntMax == 2147483647

\* samples <-> beats at a fixed tempo of two samples per beat
SamplesOf(beats) == beats * 2
BeatsOf(samples) == samples \div 2

\* midi_write adding what write_unlocked returned
capture_increment_ret(cnt, ret) == ret

\* what midi_write adds to _capture_length for a bounded count
capture_increment(cnt, ret) == cnt

\* MidiSource::midi_write; ret is what write_unlocked returns
MidiWrite(s, cnt, ret, rolling) ==
    /\ cnt # TimecntMax => capture_length[s] + capture_increment(cnt, ret) <= MaxCapture
    /\ IF cnt = TimecntMax
       THEN /\ cursors' = invalidate(cursors, s)
            /\ emitted' = << Invalidated(rolling) >>
            /\ UNCHANGED capture_length
       ELSE /\ capture_length' = [capture_length EXCEPT
                                    ![s] = @ + capture_increment(cnt, ret)]
            /\ emitted' = << >>
            /\ UNCHANGED cursors
    /\ last' = [op |-> "midi_write", s |-> s, cnt |-> cnt, ret |-> ret]
    /\ UNCHANGED << modelVars, writing, natural_position, length, metaVars >>

\* a write start that raises the flag only when a model is attached
MarkStreamingMidiWriteStarted_with_model(s) ==
    /\ model_open' = IF model[s] # NoModel
                     THEN [model_open EXCEPT ![model[s]] = TRUE]
                     ELSE model_open
    /\ writing' = [writing EXCEPT ![s] = model[s] # NoModel]
    /\ emitted' = << >>
    /\ last' = [op |-> "mark_streaming_midi_write_started", s |-> s]
    /\ UNCHANGED << model, list_interp, capture_length, natural_position, length,
                    metaVars, cursors >>

\* MidiSource::mark_streaming_midi_write_started (and, through it,
\* mark_streaming_write_started)
MarkStreamingMidiWriteStarted(s) ==
    /\ model_open' = IF model[s] # NoModel
                     THEN [model_open EXCEPT ![model[s]] = TRUE]
                     ELSE model_open
    /\ writing' = [writing EXCEPT ![s] = TRUE]
    /\ emitted' = << >>
    /\ last' = [op |-> "mark_streaming_midi_write_started", s |-> s]
    /\ UNCHANGED << model, list_interp, capture_length, natural_position, length,
                    metaVars, cursors >>

\* MidiSource::mark_streaming_write_started: the same with note mode Sustained
MarkStreamingWriteStarted(s) == MarkStreamingMidiWriteStarted(s)

\* MidiSource::mark_write_starting_now
MarkWriteStartingNow(s, position, cap) ==
    /\ natural_position' = [natural_position EXCEPT ![s] = position]
    /\ capture_length' = [capture_length EXCEPT ![s] = cap]
    /\ length' = [length EXCEPT ![s] = BeatsOf(cap)]
    /\ emitted' = << >>
    /\ last' = [op |-> "mark_write_starting_now", s |-> s]
    /\ UNCHANGED << modelVars, writing, metaVars, cursors >>

\* the loop of mark_midi_streaming_write_completed over the controls ps of
\* model mdl: for a control that has a list,
\* _interpolation_style.insert (make_pair (parameter, Discrete))
RECURSIVE record_discrete(_, _, _)
record_discrete(m, mdl, ps) ==
    IF ps = {} THEN m
    ELSE LET p == CHOOSE q \in ps : TRUE
         IN record_discrete(IF p \in ControlsWithList(mdl)
                            THEN MapInsert(m, p, Discrete) ELSE m,
                            mdl, ps \ {p})

\* MidiSource::mark_midi_streaming_write_completed (and, through it,
\* mark_streaming_write_completed).  end_write's handling of stuck notes is
\* the model's own business and is not represented.
MarkMidiStreamingWriteCompleted(s, rolling) ==
    /\ IF model[s] # NoModel
       THEN /\ model_open' = [model_open EXCEPT ![model[s]] = FALSE]
            /\ list_interp' = [list_interp EXCEPT
                                 ![model[s]] = [p \in DOMAIN @ |-> Discrete]]
            /\ interpolation_style' =
                 [interpolation_style EXCEPT
                    ![s] = record_discrete(@, model[s], Controls(model[s]))]
       ELSE UNCHANGED << model_open, list_interp, interpolation_style >>
    /\ cursors' = [c \in Cursors |->
                     IF cursors[c].connected = s /\ ~cursors[c].stale
                     THEN [invalidate(cursors, s)[c] EXCEPT
                             !.stale = TRUE, !.stale_end = cursors[c].last_read_end]
                     ELSE invalidate(cursors, s)[c]]
    /\ writing' = [writing EXCEPT ![s] = FALSE]
    /\ emitted' = << Invalidated(rolling) >>
    /\ last' = [op |-> "mark_midi_streaming_write_completed", s |-> s]
    /\ UNCHANGED << model, capture_length, natural_position, length, automation_state >>

\* MidiSource::mark_streaming_write_completed: the same with DeleteStuckNotes
MarkStreamingWriteCompleted(s, rolling) == MarkMidiStreamingWriteCompleted(s, rolling)


(***************************************************************************)
(* Read engine.                                                            *)
(***************************************************************************)
\* Sequence::begin (t, false, filtered, &active_notes): an iterator at the
\* first event at or after t, or at the end.  The excluded parameter set acts
\* inside the sequence: ModelEvents is the event sequence the iterator yields.
begin(m, t) ==
    LET v == ModelEvents(m)
        at == {i \in 1..Len(v) : v[i].time >= t}
    IN [live |-> TRUE, model |-> m,
        pos |-> IF at = {} THEN Len(v) + 1
                ELSE CHOOSE i \in at : \A j \in at : i <= j]

\* const_iterator::valid(): an iterator at the end is not valid
valid(iter) == iter.live /\ iter.pos <= Len(ModelEvents(iter.model))

\* Temporal::Range::squish: fold a position past the loop end back into the loop
NoLoop == [on |-> FALSE, start |-> 0, end |-> 0]
squish(loop, t) ==
    IF loop.on /\ t >= loop.end
    THEN loop.start + ((t - loop.start) % (loop.end - loop.start))
    ELSE t

\* MidiChannelFilter::filter on a copy of the event: whether the event is
\* rejected, and the first byte of the copy afterwards
NoFilter == [mode |-> "none", mask |-> {}]
BitAndF0(status) == (status \div 16) * 16
BitAnd0F(status) == status % 16
filter_event(f, status) ==
    LET type == BitAndF0(status)
        channel == BitAnd0F(status)
    IN  IF ~(128 <= type /\ type <= 224) THEN [reject |-> FALSE, status |-> status]
        ELSE CASE f.mode = "FilterChannels" ->
                    [reject |-> channel \notin f.mask, status |-> status]
               [] f.mode = "ForceChannel" ->
                    [reject |-> FALSE,
                     status |-> type + (CHOOSE c \in f.mask : \A d \in f.mask : c <= d)]
               [] OTHER -> [reject |-> FALSE, status |-> status]

\* midi_read's test: (0x80 <= (status & 0xF0)) && (status <= 0xE0)
is_channel_event(status) == (128 <= BitAndF0(status)) /\ (status <= 224)

\* should the in-range event be fed to the tracker: tracker->track (*i)
\* follows the filter's if/else and does not depend on its verdict
track_event(tracker, written) == tracker

\* a window that takes in the event at its end
past_end_inclusive(session_event_beats, end) == session_event_beats > end

\* the end of the window: events at or after it stop the scan
past_end(session_event_beats, end) == session_event_beats >= end

\* a loop that leaves the iterator behind the event that ended the window
RECURSIVE scan_consuming(_, _, _, _, _)
scan_consuming(v, pos, a, sink, tracked) ==
    IF pos > Len(v) THEN [pos |-> pos, sink |-> sink, tracked |-> tracked]
    ELSE
    LET e == v[pos]
        end == a.source_start + a.start + a.cnt
        session_source_start == a.source_start + a.start
        session_event_beats == a.source_start + e.time
    IN
    IF session_event_beats < session_source_start
    THEN scan_consuming(v, pos + 1, a, sink, tracked)
    ELSE IF session_event_beats >= end
    THEN [pos |-> pos + 1, sink |-> sink, tracked |-> tracked]
    ELSE scan_consuming(v, pos + 1, a,
                        Append(sink, [time |-> SamplesOf(session_event_beats),
                                      id |-> e.id, status |-> e.status]),
                        tracked)

\* the loop of midi_read from iterator position pos; a is the call's
\* arguments, sink and tracked what was written and tracked so far
RECURSIVE scan(_, _, _, _, _)
scan(v, pos, a, sink, tracked) ==
    IF pos > Len(v) THEN [pos |-> pos, sink |-> sink, tracked |-> tracked]
    ELSE
    LET e == v[pos]
        end == a.source_start + a.start + a.cnt
        session_source_start == a.source_start + a.start
        session_event_beats == a.source_start + e.time
    IN
    IF session_event_beats < session_source_start
    THEN scan(v, pos + 1, a, sink, tracked)
    ELSE IF past_end(session_event_beats, end)
    THEN [pos |-> pos, sink |-> sink, tracked |-> tracked]
    ELSE
    LET time_samples == SamplesOf(squish(a.loop_range, session_event_beats))
        filtering == a.filter.mode # "none" /\ is_channel_event(e.status)
        f == filter_event(a.filter, e.status)
        written == ~filtering \/ ~f.reject
        out == [time |-> time_samples, id |-> e.id,
                status |-> IF filtering THEN f.status ELSE e.status]
    IN scan(v, pos + 1, a,
            IF written THEN Append(sink, out) ELSE sink,
            IF track_event(a.tracker, written) THEN Append(tracked, e.id) ELSE tracked)

\* a linearity test that is off by one beat
linear_read_off_by_one(cursor, start) ==
    cursor.last_read_end # 0 /\ start = cursor.last_read_end + 1

\* the linearity test of midi_read
linear_read(cursor, start) == cursor.last_read_end # 0 /\ start = cursor.last_read_end

\* a midi_read that keeps the playback position in the source, where every
\* reader of the source finds it
MidiRead_shared(s, c, a, ret) ==
    /\ IF model[s] = NoModel
       THEN /\ last' = [op |-> "midi_read", s |-> s, c |-> c, a |-> a,
                        path |-> "unmodeled", ret |-> ret, was_stale |-> cursors[c].stale,
                        stale_end |-> cursors[c].stale_end,
                        scan_from |-> 0, sink |-> << >>, tracked |-> << >>]
            /\ UNCHANGED cursors
       ELSE LET cur == cursors[c]
                fresh == ~linear_read(cur, a.start) \/ ~valid(cur.iter)
                it == IF fresh THEN begin(model[s], a.start) ELSE cur.iter
                r == scan(ModelEvents(it.model), it.pos, a, << >>, << >>)
            IN /\ cursors' = [d \in Cursors |->
                                [last_read_end |-> a.start + a.cnt,
                                 iter |-> [it EXCEPT !.pos = r.pos],
                                 connected |-> s,
                                 stale |-> FALSE,
                                 stale_end |-> 0]]
               /\ last' = [op |-> "midi_read", s |-> s, c |-> c, a |-> a,
                           path |-> IF fresh THEN "fresh" ELSE "linear",
                           ret |-> a.cnt, was_stale |-> cur.stale,
                           stale_end |-> cur.stale_end,
                           scan_from |-> it.pos, sink |-> r.sink, tracked |-> r.tracked]
    /\ emitted' = << >>
    /\ UNCHANGED << modelVars, captureVars, metaVars >>

\* MidiSource::midi_read.  a = [source_start, start, cnt, loop_range, tracker,
\* filter]; ret is what read_unlocked returns when no model is attached
MidiRead(s, c, a, ret) ==
    /\ IF model[s] = NoModel
       THEN /\ last' = [op |-> "midi_read", s |-> s, c |-> c, a |-> a,
                        path |-> "unmodeled", ret |-> ret, was_stale |-> cursors[c].stale,
                        stale_end |-> cursors[c].stale_end,
                        scan_from |-> 0, sink |-> << >>, tracked |-> << >>]
            /\ UNCHANGED cursors
       ELSE LET cur == cursors[c]
                fresh == ~linear_read(cur, a.start) \/ ~valid(cur.iter)
                it == IF fresh THEN begin(model[s], a.start) ELSE cur.iter
                r == scan(ModelEvents(it.model), it.pos, a, << >>, << >>)
            IN /\ cursors' = [cursors EXCEPT ![c] =
                                [last_read_end |-> a.start + a.cnt,
                                 iter |-> [it EXCEPT !.pos = r.pos],
                                 connected |-> IF fresh THEN s ELSE cur.connected,
                                 stale |-> FALSE,
                                 stale_end |-> 0]]
               /\ last' = [op |-> "midi_read", s |-> s, c |-> c, a |-> a,
                           path |-> IF fresh THEN "fresh" ELSE "linear",
                           ret |-> a.cnt, was_stale |-> cur.stale,
                           stale_end |-> cur.stale_end,
                           scan_from |-> it.pos, sink |-> r.sink, tracked |-> r.tracked]
    /\ emitted' = << >>
    /\ UNCHANGED << modelVars, captureVars, metaVars >>


(***************************************************************************)
(* Clone / export engine.  The operations on the target source that are    *)
(* not MidiSource's own (MidiModel::write_to and write_section_to, and the  *)
(* file source's flush_midi, load_model, destroy_model, prevent_deletion)   *)
(* are recorded as the calls made, in order, and the events handed over.    *)
(***************************************************************************)
\* std::numeric_limits<Temporal::Beats>::max()
BeatsMax == 2147483647

\* MidiModel::write_to: every event of the model
model_write_to(m) == ModelEvents(m)

\* MidiModel::write_section_to: the events with begin <= time < end, their
\* times moved back by begin when offset_events is set
write_section_to(m, begin_beats, end_beats, offset_events) ==
    LET sel == SelectSeq(ModelEvents(m), LAMBDA e : begin_beats <= e.time /\ e.time < end_beats)
    IN [i \in 1..Len(sel) |->
           IF offset_events THEN [sel[i] EXCEPT !.time = @ - begin_beats] ELSE sel[i]]

\* a test for an attached model that never fails
no_model_ignored(m) == FALSE

\* if (!_model): no model is attached
no_model(m) == m = NoModel

\* begin == Beats() && end == max: the whole model is written
is_full_range(begin_beats, end_beats) == begin_beats = 0 /\ end_beats = BeatsMax

\* a partial-range test that needs both bounds to differ
is_partial_range_both(begin_beats, end_beats) == begin_beats # 0 /\ end_beats # BeatsMax

\* begin != Beats() || end != max: the target is reloaded, not re-created
is_partial_range(begin_beats, end_beats) == begin_beats # 0 \/ end_beats # BeatsMax

\* MidiSource::export_write_to on a source whose model is m: the status, the
\* calls on the target and the events written to it
export_write_to(m, begin_beats, end_beats) ==
    IF no_model(m)
    THEN [rc |-> -1, calls |-> << >>, written |-> << >>]
    ELSE [rc |-> 0,
          calls |-> << "write_section_to", "flush_midi" >>,
          written |-> write_section_to(m, begin_beats, end_beats, TRUE)]

\* MidiSource::write_to after the copies to the target (from if (_model) on)
write_to(m, begin_beats, end_beats) ==
    IF no_model(m)
    THEN [rc |-> -1, calls |-> << >>, written |-> << >>]
    ELSE [rc |-> 0,
          calls |-> << IF is_full_range(begin_beats, end_beats) THEN "write_to"
                       ELSE "write_section_to",
                       "flush_midi" >>
                    \o (IF is_partial_range(begin_beats, end_beats)
                        THEN << "load_model_force" >>
                        ELSE << "destroy_model", "load_model" >>)
                    \o << "prevent_deletion" >>,
          written |-> IF is_full_range(begin_beats, end_beats)
                      THEN model_write_to(m)
                      ELSE write_section_to(m, begin_beats, end_beats, FALSE)]

ExportWriteTo(s, newsrc, begin_beats, end_beats) ==
    LET r == export_write_to(model[s], begin_beats, end_beats) IN
    /\ s # newsrc
    /\ emitted' = << >>
    /\ last' = [op |-> "export_write_to", s |-> s, newsrc |-> newsrc,
                begin |-> begin_beats, end |-> end_beats,
                rc |-> r.rc, calls |-> r.calls, written |-> r.written]
    /\ UNCHANGED << modelVars, captureVars, metaVars, cursors >>

\* a write_to that looks for the model before it copies anything
WriteTo_checks_first(s, newsrc, begin_beats, end_beats) ==
    LET r == write_to(model[s], begin_beats, end_beats) IN
    /\ s # newsrc
    /\ IF no_model(model[s])
       THEN UNCHANGED << natural_position, interpolation_style, automation_state >>
       ELSE /\ natural_position' = [natural_position EXCEPT ![newsrc] = natural_position[s]]
            /\ interpolation_style' =
                  [interpolation_style EXCEPT ![newsrc] = interpolation_style[s]]
            /\ automation_state' =
                  [automation_state EXCEPT ![newsrc] = automation_state[s]]
    /\ emitted' = << >>
    /\ last' = [op |-> "write_to", s |-> s, newsrc |-> newsrc,
                begin |-> begin_beats, end |-> end_beats,
                rc |-> r.rc, calls |-> r.calls, written |-> r.written]
    /\ UNCHANGED << modelVars, writing, capture_length, length, cursors >>

\* MidiSource::write_to: set_natural_position, copy_interpolation_from and
\* copy_automation_state_from on the target come first, then the model test
WriteTo(s, newsrc, begin_beats, end_beats) ==
    LET r == write_to(model[s], begin_beats, end_beats) IN
    /\ s # newsrc
    /\ natural_position' = [natural_position EXCEPT ![newsrc] = natural_position[s]]
    /\ interpolation_style' =
          [interpolation_style EXCEPT ![newsrc] = interpolation_style[s]]
    /\ automation_state' =
          [automation_state EXCEPT ![newsrc] = automation_state[s]]
    /\ emitted' = << >>
    /\ last' = [op |-> "write_to", s |-> s, newsrc |-> newsrc,
                begin |-> begin_beats, end |-> end_beats,
                rc |-> r.rc, calls |-> r.calls, written |-> r.written]
    /\ UNCHANGED << modelVars, writing, capture_length, length, cursors >>


(***************************************************************************)
(* Inputs.                                                                 *)
(***************************************************************************)
Rolling == BOOLEAN

\* the children a state node is made of
Children ==
    { Child("InterpolationStyle", TRUE, EventTypeMap_to_symbol(CC7), TRUE, "Discrete"),
      Child("InterpolationStyle", TRUE, EventTypeMap_to_symbol(PGM), TRUE, "Linear"),
      Child("InterpolationStyle", TRUE, EventTypeMap_to_symbol(PGM), TRUE, ""),
      Child("InterpolationStyle", TRUE, EventTypeMap_to_symbol(SYSEX), TRUE, "Discrete"),
      Child("InterpolationStyle", TRUE, BogusSymbol, TRUE, "Linear"),
      Child("InterpolationStyle", FALSE, <<"">>, TRUE, "Discrete"),
      Child("InterpolationStyle", TRUE, EventTypeMap_to_symbol(CC7), FALSE, ""),
      Child("AutomationState", TRUE, EventTypeMap_to_symbol(CC7), TRUE, "Off"),
      Child("AutomationState", TRUE, EventTypeMap_to_symbol(PGM), TRUE, ""),
      Child("AutomationState", TRUE, EventTypeMap_to_symbol(SYSEX), TRUE, "Off"),
      Child("AutomationState", TRUE, BogusSymbol, TRUE, "Off"),
      Child("AutomationState", FALSE, <<"">>, TRUE, "Off"),
      Child("AutomationState", TRUE, EventTypeMap_to_symbol(PGM), FALSE, "") }

StateNodes == UNION { [1..n -> Children] : n \in 0..MaxChildren }

AllChannelsFilter == [mode |-> "AllChannels", mask |-> {}]

Filters == { NoFilter,
             AllChannelsFilter,
             [mode |-> "FilterChannels", mask |-> {0}],
             [mode |-> "ForceChannel", mask |-> {2}] }

Loops == { NoLoop, [on |-> TRUE, start |-> 1, end |-> 3] }

ReadArgs(offsets, loops, trackers, filters) ==
    [source_start : offsets, start : 0..MaxTime, cnt : 0..MaxCnt,
     loop_range : loops, tracker : trackers, filter : filters]

Counts == 0..MaxCnt \cup {TimecntMax}

\* the ends of a clone or export range
RangeEnds == 0..(MaxTime + 1) \cup {BeatsMax}

(***************************************************************************)
(* Specifications.                                                         *)
(***************************************************************************)
\* the parameter metadata store of two sources
Next ==
    \/ \E s \in Sources, p \in Params, v \in Styles : SetInterpolationOf(s, p, v)
    \/ \E s \in Sources, p \in Params, v \in AutoStates : SetAutomationStateOf(s, p, v)
    \/ \E s, from \in Sources : CopyInterpolationFrom(s, from)
    \/ \E s, from \in Sources : CopyAutomationStateFrom(s, from)
    \/ SetModel("src", 1, FALSE)
    \/ MarkMidiStreamingWriteCompleted("src", FALSE)

Spec == Init /\ [][Next]_vars

\* persistence: the state of one source written and read back
NextState ==
    \/ \E node \in StateNodes : SetState("src", node)
    \/ GetStateSetStateFresh("src")
    \/ SetModel("src", 1, FALSE)
    \/ MarkMidiStreamingWriteCompleted("src", FALSE)

SpecState == Init /\ [][NextState]_vars

\* the write / capture engine of one source
NextWrite ==
    \/ \E cnt \in Counts, ret \in 0..MaxCnt, r \in Rolling :
          /\ cnt # TimecntMax => ret <= cnt
          /\ MidiWrite("src", cnt, ret, r)
    \/ MarkStreamingMidiWriteStarted("src")
    \/ \E pos \in 0..MaxPos, cap \in 0..MaxCapture : MarkWriteStartingNow("src", pos, cap)
    \/ \E r \in Rolling : MarkMidiStreamingWriteCompleted("src", r)
    \/ \E m \in Models, r \in Rolling : SetModel("src", m, r)
    \/ \E r \in Rolling : DropModel("src", r)

SpecWrite == Init /\ [][NextWrite]_vars

\* the read engine: the cursors of two readers of one source
NextRead ==
    \/ \E c \in Cursors, a \in ReadArgs({0}, {NoLoop}, {FALSE}, {NoFilter}) :
          MidiRead("src", c, a, 0)
    \/ MarkMidiStreamingWriteCompleted("src", FALSE)
    \/ SetModel("src", 1, FALSE)
    \/ DropModel("src", FALSE)

SpecRead == Init /\ [][NextRead]_vars

\* the read engine: the window of one reader, with source offset and loop range
NextWindow ==
    \/ \E a \in ReadArgs(0..MaxOffset, Loops, {FALSE}, {NoFilter, AllChannelsFilter}) :
          MidiRead("src", 1, a, 0)
    \/ \E m \in Models : SetModel("src", m, FALSE)

SpecWindow == Init /\ [][NextWindow]_vars

\* the read engine: one reader with channel filter and note tracker
NextFilter ==
    \/ \E a \in ReadArgs({0}, {NoLoop}, BOOLEAN, Filters) :
          MidiRead("src", 1, a, 0)
    \/ \E m \in Models : SetModel("src", m, FALSE)

SpecFilter == Init /\ [][NextFilter]_vars

\* the clone / export engine: a source and the target it is written to
NextClone ==
    \/ \E b \in 0..MaxTime, e \in RangeEnds : WriteTo("src", "peer", b, e)
    \/ \E b \in 0..MaxTime, e \in RangeEnds : ExportWriteTo("src", "peer", b, e)
    \/ \E m \in Models : SetModel("src", m, FALSE)
    \/ DropModel("src", FALSE)
    \/ \E s \in Sources, v \in Styles : SetInterpolationOf(s, PGM, v)
    \/ \E s \in Sources, v \in AutoStates : SetAutomationStateOf(s, CC7, v)
    \/ \E pos \in 0..MaxPos : MarkWriteStartingNow("src", pos, 0)

SpecClone == Init /\ [][NextClone]_vars

\* model attach / detach under the cursors of two readers
NextModel ==
    \/ \E c \in Cursors, a \in ReadArgs({0}, {NoLoop}, {FALSE}, {NoFilter}) :
          MidiRead("src", c, a, 0)
    \/ \E m \in Models, r \in Rolling : SetModel("src", m, r)
    \/ \E r \in Rolling : DropModel("src", r)

SpecModel == Init /\ [][NextModel]_vars

\* the writing flag of one source under every operation that could touch it
NextWriting ==
    \/ MarkStreamingMidiWriteStarted("src")
    \/ MarkStreamingWriteStarted("src")
    \/ MarkMidiStreamingWriteCompleted("src", FALSE)
    \/ MarkStreamingWriteCompleted("src", FALSE)
    \/ \E cnt \in Counts : MidiWrite("src", cnt, 0, FALSE)
    \/ \E pos \in 0..MaxPos : MarkWriteStartingNow("src", pos, 0)
    \/ \E a \in ReadArgs({0}, {NoLoop}, {FALSE}, {NoFilter}) : MidiRead("src", 1, a, 0)
    \/ SetModel("src", 1, FALSE)
    \/ DropModel("src", FALSE)

SpecWriting == Init /\ [][NextWriting]_vars


(***************************************************************************)
(* Properties.                                                             *)
(***************************************************************************)
SinkIds(sink) == [i \in 1..Len(sink) |-> sink[i].id]

EventOf(m, id) == CHOOSE e \in {ModelEvents(m)[i] : i \in 1..Len(ModelEvents(m))} : e.id = id

InWindow(m, start, cnt) ==
    SelectSeq(ModelEvents(m), LAMBDA e : start <= e.time /\ e.time < start + cnt)

\* C1: no override map of any source holds an entry equal to the default: no
\* (P, type default of P) in the interpolation map, no (P, Play) in the
\* automation-state map.
C1_NoDefaultEntry ==
    \A s \in Sources :
        /\ \A p \in DOMAIN interpolation_style[s] :
              interpolation_style[s][p] # EventTypeMap_interpolation_of(p)
        /\ \A p \in DOMAIN automation_state[s] : automation_state[s][p] # Play

\* C2: the first modelled read of a cursor after a write completed on the
\* source it had read takes the fresh-search path, whatever the start.
C2_StaleCursorResyncs ==
    (last.op = "midi_read" /\ last.was_stale /\ last.path # "unmodeled")
        => last.path = "fresh"

\* C2's case: the read after the write starts exactly where the cursor's
\* previous read ended
C2_Witness ==
    /\ last.op = "midi_read" /\ last.was_stale /\ last.path = "fresh"
    /\ last.stale_end # 0 /\ last.a.start = last.stale_end
    /\ Len(last.sink) > 0

\* C3: a read without channel filter that searched the model afresh writes
\* exactly the events with start <= time < start + cnt, once each and in
\* order, and leaves the iterator at the first event at or after start + cnt,
\* or at the end.
C3_WindowExact ==
    (last.op = "midi_read" /\ last.path = "fresh" /\ last.a.filter = NoFilter) =>
        LET m == model["src"]
            a == last.a
            rest == {i \in 1..Len(ModelEvents(m)) : ModelEvents(m)[i].time >= a.start + a.cnt}
        IN /\ SinkIds(last.sink) = SinkIds(InWindow(m, a.start, a.cnt))
           /\ cursors[last.c].iter.pos =
                 IF rest = {} THEN Len(ModelEvents(m)) + 1
                 ELSE CHOOSE i \in rest : \A j \in rest : i <= j

\* C3's case: a source offset, two events written, and an event lying
\* exactly on the end of the window left for the next read
C3_Witness ==
    /\ last.op = "midi_read" /\ last.path = "fresh" /\ last.a.filter = NoFilter
    /\ last.a.source_start = 1
    /\ Len(last.sink) >= 2
    /\ valid(cursors[last.c].iter)
    /\ ModelEvents(model["src"])[cursors[last.c].iter.pos].time = last.a.start + last.a.cnt

\* a read of cursor c that starts where c's previous read ended, with the
\* iterator that read left still valid (an invalidation makes it invalid)
Continues(c) ==
    /\ last'.op = "midi_read" /\ last'.c = c /\ last'.path # "unmodeled"
    /\ cursors[c].connected # "none"
    /\ valid(cursors[c].iter)
    /\ last'.a.start = cursors[c].last_read_end

Resumes(c) == last'.path = "linear" /\ last'.scan_from = cursors[c].iter.pos

\* C4 as stated: a read of [b, c) that follows a read of [a, b) on the same
\* cursor, the iterator still valid, searches nothing and resumes from the
\* position the first read left.
C4_Original == [][\A c \in Cursors : Continues(c) => Resumes(c)]_vars

\* C4, amended: the same for b # 0; a window that ends at 0 leaves
\* last_read_end = 0, which midi_read takes for "never read".
C4_LinearResume ==
    [][\A c \in Cursors :
          (Continues(c) /\ cursors[c].last_read_end # 0) => Resumes(c)]_vars

\* C4's case: a resumed read that wrote events
C4_Witness ==
    /\ last.op = "midi_read" /\ last.path = "linear"
    /\ last.scan_from > 1 /\ Len(last.sink) > 0

\* C5: with a channel filter, every written event whose status byte is in
\* 0x80 .. 0xEF went through the filter: the filter does not reject it, and
\* what is written is the filter's copy.
C5_ChannelEventsFiltered ==
    (last.op = "midi_read" /\ last.path # "unmodeled" /\ last.a.filter # NoFilter) =>
        \A i \in 1..Len(last.sink) :
            LET e == EventOf(model["src"], last.sink[i].id)
                f == filter_event(last.a.filter, e.status)
            IN (128 <= e.status /\ e.status <= 239) =>
                  (~f.reject /\ last.sink[i].status = f.status)

\* C6: with a tracker, the events fed to the tracker are the events written
\* to the sink, in the same order.
C6_TrackerSeesEmitted ==
    (last.op = "midi_read" /\ last.path # "unmodeled" /\ last.a.tracker) =>
        last.tracked = SinkIds(last.sink)

Invalidations(sigs) == Cardinality({i \in 1..Len(sigs) : sigs[i].sig = "Invalidated"})

\* C7: midi_write of a bounded count N adds exactly N to the capture length
\* and emits no Invalidated; midi_write of the maximum count leaves the
\* capture length and emits Invalidated once.
C7_CaptureLength ==
    [][last'.op = "midi_write" =>
          IF last'.cnt # TimecntMax
          THEN /\ capture_length'["src"] = capture_length["src"] + last'.cnt
               /\ Invalidations(emitted') = 0
          ELSE /\ capture_length'["src"] = capture_length["src"]
               /\ Invalidations(emitted') = 1]_vars

\* C7's case: an unbounded write after bounded ones
C7_Witness ==
    /\ last.op = "midi_write" /\ last.cnt = TimecntMax
    /\ Invalidations(emitted) = 1
    /\ capture_length["src"] > 0

\* C8 as stated: a bounded midi_write adds what the backend transferred (the
\* value midi_write returns) to the capture length.
C8_Original ==
    [][(last'.op = "midi_write" /\ last'.cnt # TimecntMax) =>
          capture_length'["src"] = capture_length["src"] + last'.ret]_vars

\* C8, amended: also when the backend transfers fewer samples than requested,
\* a bounded midi_write adds the requested count to the capture length.
C8_AddsRequested ==
    [][(last'.op = "midi_write" /\ last'.cnt # TimecntMax /\ last'.ret < last'.cnt) =>
          capture_length'["src"] = capture_length["src"] + last'.cnt]_vars

\* C8's case: a short transfer
C8_Witness ==
    /\ last.op = "midi_write" /\ last.cnt # TimecntMax /\ last.ret < last.cnt
    /\ capture_length["src"] >= last.cnt

\* C9: after mark_midi_streaming_write_completed on a source with a model,
\* every control list is Discrete and interpolation_of its parameter is
\* Discrete.
C9_DiscreteAfterWrite ==
    (last.op = "mark_midi_streaming_write_completed" /\ model["src"] # NoModel) =>
        \A p \in ControlsWithList(model["src"]) :
            /\ list_interp[model["src"]][p] = Discrete
            /\ interpolation_of(interpolation_style["src"], p) = Discrete

\* C10: get_state, then set_state of the node into a new source, gives the
\* new source the override maps of the original.
C10_RoundTrip ==
    last.op = "round_trip" =>
        /\ last.rc = 0
        /\ last.interp = interpolation_style["src"]
        /\ last.auto = automation_state["src"]


\* C11: a setter called with the effective value changes neither override map
\* and emits nothing; called with another value it emits exactly one
\* notification carrying (P, s), and the lookup of P afterwards returns s.
C11_SetterContract ==
    [][/\ last'.op = "set_interpolation_of" =>
             IF interpolation_of(interpolation_style[last'.s], last'.p) = last'.v
             THEN /\ interpolation_style' = interpolation_style
                  /\ automation_state' = automation_state
                  /\ emitted' = << >>
             ELSE /\ emitted' = << [sig |-> "InterpolationChanged",
                                     p |-> last'.p, s |-> last'.v] >>
                  /\ interpolation_of(interpolation_style'[last'.s], last'.p) = last'.v
       /\ last'.op = "set_automation_state_of" =>
             IF automation_state_of(automation_state[last'.s], last'.p) = last'.v
             THEN /\ interpolation_style' = interpolation_style
                  /\ automation_state' = automation_state
                  /\ emitted' = << >>
             ELSE /\ emitted' = << [sig |-> "AutomationStateChanged",
                                     p |-> last'.p, s |-> last'.v] >>
                  /\ automation_state_of(automation_state'[last'.s], last'.p) = last'.v
      ]_vars

\* C11's case: a setter that changed the value of a parameter of a source
\* holding overrides in both maps, and notified once
C11_Witness ==
    /\ last.op = "set_interpolation_of"
    /\ emitted = << [sig |-> "InterpolationChanged", p |-> last.p, s |-> last.v] >>
    /\ interpolation_of(interpolation_style[last.s], last.p) = last.v
    /\ last.p \in DOMAIN interpolation_style[last.s]
    /\ automation_state[last.s] # EmptyMap


\* C12: after set_interpolation_of (P, type default of P) the interpolation
\* map has no entry for P, after set_automation_state_of (P, Play) the
\* automation-state map has none, and the map is no larger than before.
C12_DefaultErases ==
    [][/\ (last'.op = "set_interpolation_of"
            /\ last'.v = EventTypeMap_interpolation_of(last'.p)) =>
             /\ last'.p \notin DOMAIN interpolation_style'[last'.s]
             /\ Cardinality(DOMAIN interpolation_style'[last'.s])
                   <= Cardinality(DOMAIN interpolation_style[last'.s])
       /\ (last'.op = "set_automation_state_of" /\ last'.v = Play) =>
             /\ last'.p \notin DOMAIN automation_state'[last'.s]
             /\ Cardinality(DOMAIN automation_state'[last'.s])
                   <= Cardinality(DOMAIN automation_state[last'.s])
      ]_vars


\* the children of a state node whose parameter symbol resolves to a type
\* that cannot be automated (system exclusive, or not a MIDI parameter)
NotAutomatable(ch) ==
    /\ ch.name \in {"InterpolationStyle", "AutomationState"}
    /\ ch.has_parameter
    /\ EventTypeMap_from_symbol(ch.parameter).type \notin AutomatableTypes

Strip(node) == SelectSeq(node, LAMBDA ch : ~NotAutomatable(ch))

\* C13: set_state skips every child of either kind whose symbol resolves to
\* a system-exclusive or unrecognised parameter: the maps, the notifications
\* and the returned status are those of set_state on the node without these
\* children, and a node made of such children only changes nothing, emits
\* nothing and returns 0.
C13_SkipsNonAutomatable ==
    [][\A node \in StateNodes :
          SetState("src", node) =>
             LET r == set_state(Meta("src"), Strip(node)) IN
             /\ interpolation_style'["src"] = r.st.interp
             /\ automation_state'["src"] = r.st.auto
             /\ emitted' = r.st.emitted
             /\ last'.rc = r.rc
             /\ \A p \in DOMAIN interpolation_style'["src"]
                         \cup DOMAIN automation_state'["src"] :
                    p.type \in AutomatableTypes
      ]_vars


\* C14: write_to of a source with a model, for the full range (begin = 0 and
\* end = maximum): the whole model is written, the target flushed, its model
\* destroyed and loaded again; for any other range: only the section is
\* written, the target flushed and load_model forced, destroy_model never
\* called, and the target receives exactly the events with begin <= time <
\* end.  prevent_deletion on the target comes last in both cases.
C14_CloneRange ==
    (last.op = "write_to" /\ model[last.s] # NoModel) =>
        IF last.begin = 0 /\ last.end = BeatsMax
        THEN /\ last.calls = << "write_to", "flush_midi", "destroy_model",
                                "load_model", "prevent_deletion" >>
             /\ last.written = ModelEvents(model[last.s])
        ELSE /\ last.calls = << "write_section_to", "flush_midi",
                                "load_model_force", "prevent_deletion" >>
             /\ last.written =
                   SelectSeq(ModelEvents(model[last.s]),
                             LAMBDA e : last.begin <= e.time /\ e.time < last.end)

\* C14's case: a clone of begin > 0 up to the maximum, which leaves out some
\* events of the model and keeps others
C14_Witness ==
    /\ last.op = "write_to" /\ model[last.s] # NoModel
    /\ last.begin > 0 /\ last.end = BeatsMax
    /\ Len(last.written) > 0
    /\ Len(last.written) < Len(ModelEvents(model[last.s]))

\* C15: export_write_to and write_to of a source without a model return a
\* negative status, write nothing to the target and call none of flush_midi,
\* load_model, destroy_model, prevent_deletion on it; with a model both
\* return 0.
C15_NoModelStatus ==
    (last.op \in {"write_to", "export_write_to"}) =>
        IF model[last.s] = NoModel
        THEN last.rc < 0 /\ last.calls = << >> /\ last.written = << >>
        ELSE last.rc = 0

\* C15's case: an export of a non-empty range from a source whose model was
\* dropped
C15_Witness ==
    /\ last.op = "export_write_to" /\ model[last.s] = NoModel
    /\ last.rc = -1 /\ last.begin < last.end
    /\ emitted = << >>

\* C20: after a write_to that returned the no-model status, the target has
\* the natural position and both override maps of the source, and no
\* InterpolationChanged or AutomationStateChanged was emitted.
C20_CopiesBeforeCheck ==
    (last.op = "write_to" /\ last.rc < 0) =>
        /\ natural_position[last.newsrc] = natural_position[last.s]
        /\ interpolation_style[last.newsrc] = interpolation_style[last.s]
        /\ automation_state[last.newsrc] = automation_state[last.s]
        /\ emitted = << >>

\* C20's case: the failed write_to of a source that has a natural position
\* and overrides in both maps
C20_Witness ==
    /\ last.op = "write_to" /\ last.rc = -1 /\ model[last.s] = NoModel
    /\ natural_position[last.s] = 1 /\ natural_position[last.newsrc] = 1
    /\ interpolation_style[last.s] # EmptyMap
    /\ automation_state[last.s] # EmptyMap
    /\ interpolation_style[last.newsrc] = interpolation_style[last.s]


\* C16: set_model and drop_model change the model reference and emit
\* Invalidated, then ModelChanged, once each; every cursor connected to the
\* source loses its iterator and its read position, so that its next modelled
\* read searches afresh, and no read resumes an iterator into a model other
\* than the attached one.
C16_ModelChangeInvalidates ==
    [][/\ last'.op \in {"set_model", "drop_model"} =>
             /\ model'[last'.s] = IF last'.op = "set_model" THEN last'.m ELSE NoModel
             /\ Len(emitted') = 2
             /\ emitted'[1].sig = "Invalidated"
             /\ emitted'[2] = ModelChanged
             /\ \A c \in Cursors :
                   cursors[c].connected = last'.s =>
                      /\ ~valid(cursors'[c].iter)
                      /\ cursors'[c].last_read_end = 0
       /\ (last'.op = "midi_read" /\ last'.path # "unmodeled") =>
             /\ (last.op \in {"set_model", "drop_model"}
                 /\ cursors[last'.c].connected = last.s) => last'.path = "fresh"
             /\ ~valid(cursors[last'.c].iter) => last'.path = "fresh"
             /\ last'.path = "linear" =>
                   cursors[last'.c].iter.model = model[last'.s]
             /\ cursors'[last'.c].iter.model = model[last'.s]
      ]_vars

\* C16's case: a read of the second model that searched afresh and wrote
\* events, while the other cursor, connected by its own earlier read, stands
\* invalidated by the change of model
C16_Witness ==
    /\ last.op = "midi_read" /\ last.path = "fresh"
    /\ model["src"] = 2
    /\ last.a.start > 0 /\ Len(last.sink) > 0
    /\ \E d \in Cursors \ {last.c} :
          /\ cursors[d].connected = "src"
          /\ ~valid(cursors[d].iter) /\ cursors[d].last_read_end = 0

\* C17: the writing flag is false at construction, a write start sets it, a
\* write completion clears it, and no other operation changes it.
C17_WritingFlag ==
    /\ \A s \in Sources : ~writing[s]
    /\ [][/\ last'.op = "mark_streaming_midi_write_started" => writing'[last'.s]
          /\ last'.op = "mark_midi_streaming_write_completed" => ~writing'[last'.s]
          /\ last'.op \notin {"mark_streaming_midi_write_started",
                               "mark_midi_streaming_write_completed"} =>
                writing' = writing
         ]_vars

\* C17's case: a modelled read while the source is being written, after the
\* capture was started and data written
C17_Witness ==
    /\ writing["src"]
    /\ last.op = "midi_read" /\ last.path # "unmodeled"
    /\ natural_position["src"] = 1

\* what a modelled midi_read of (cur, a) on model m gives when nothing else
\* runs: the events written and the cursor afterwards
Alone(cur, m, a) ==
    LET fresh == ~(cur.last_read_end # 0 /\ a.start = cur.last_read_end)
                    \/ ~valid(cur.iter)
        it == IF fresh THEN begin(m, a.start) ELSE cur.iter
        r == scan(ModelEvents(it.model), it.pos, a, << >>, << >>)
    IN [sink |-> r.sink, pos |-> r.pos, model |-> it.model,
        last_read_end |-> a.start + a.cnt]

\* C18: a midi_read changes the cursor it was given and nothing else: not
\* another cursor, not the source, not the model; what it writes and where
\* it leaves its cursor follow from that cursor, the model and the arguments
\* alone.
C18_CursorsIndependent ==
    [][last'.op = "midi_read" =>
          /\ \A d \in Cursors \ {last'.c} : cursors'[d] = cursors[d]
          /\ model' = model /\ list_interp' = list_interp /\ model_open' = model_open
          /\ writing' = writing /\ capture_length' = capture_length
          /\ natural_position' = natural_position /\ length' = length
          /\ interpolation_style' = interpolation_style
          /\ automation_state' = automation_state
          /\ last'.path # "unmodeled" =>
                LET r == Alone(cursors[last'.c], model[last'.s], last'.a) IN
                /\ last'.sink = r.sink
                /\ cursors'[last'.c].iter.pos = r.pos
                /\ cursors'[last'.c].iter.model = r.model
                /\ cursors'[last'.c].last_read_end = r.last_read_end
      ]_vars

\* C18's case: a resumed read of one cursor while the other cursor stands
\* at another position of the same model
C18_Witness ==
    /\ last.op = "midi_read" /\ last.path = "linear" /\ Len(last.sink) > 0
    /\ \E d \in Cursors \ {last.c} :
          /\ cursors[d].connected = "src" /\ valid(cursors[d].iter)
          /\ cursors[d].iter.pos # cursors[last.c].iter.pos
          /\ cursors[d].last_read_end # cursors[last.c].last_read_end

\* C19: two modelled reads of one cursor, [a, b) then [b, c), with nothing
\* between them, write together exactly what one fresh read of [a, c) writes,
\* which is every event with a <= time < c once and in order, and leave the
\* iterator where that one read leaves it (so that the same holds for any
\* number of contiguous reads).
C19_ContiguousReads ==
    [][(/\ last.op = "midi_read" /\ last.path # "unmodeled"
        /\ last'.op = "midi_read" /\ last'.path # "unmodeled"
        /\ last'.c = last.c /\ last'.s = last.s
        /\ last'.a.start = last.a.start + last.a.cnt) =>
          LET m == model[last.s]
              whole == [last.a EXCEPT !.cnt = last.a.cnt + last'.a.cnt]
              single == scan(ModelEvents(m), begin(m, last.a.start).pos, whole,
                             << >>, << >>)
          IN /\ last.sink \o last'.sink = single.sink
             /\ SinkIds(last.sink \o last'.sink) =
                   SinkIds(InWindow(m, last.a.start, whole.cnt))
             /\ cursors'[last'.c].iter.pos = single.pos
             /\ cursors'[last'.c].last_read_end = last.a.start + whole.cnt
      ]_vars

\* C19's case: a resumed read whose first event lies exactly on the boundary
\* between the two windows, the first window having events of its own
C19_Witness ==
    /\ last.op = "midi_read" /\ last.path = "linear"
    /\ Len(last.sink) > 0
    /\ last.sink[1].time = SamplesOf(last.a.start)
    /\ last.scan_from > 1

=============================================================================
